---- MODULE Spec2Model ----
(***************************************************************************)
(* A model of spyder/utils/vcs.py: detection of a Git or Mercurial         *)
(* repository around a path, the launch of the commit/browse tools, and    *)
(* the parsing of the status, revision and ref listings of the tools.      *)
(*                                                                         *)
(* Text is a sequence of one-character strings; a byte string is a         *)
(* sequence of byte tokens (an ASCII byte is its character, "c3" "a9" are  *)
(* the two bytes of U+00E9 and "ff" is a byte no UTF-8 text contains).     *)
(* A path is a record of its absoluteness and its components.  Python      *)
(* values of different types are tagged records (field t).                 *)
(***************************************************************************)
EXTENDS Integers, Sequences, FiniteSets, TLC

VARIABLES
    fs,         \* the marker directories that exist: a set of component sequences
    cwd,        \* the process's working directory (components)
    installed,  \* the executables on the search path
    pytest,     \* what running_under_pytest() answers
    os_name,    \* os.name at import time
    tree,       \* the working tree as the status tool sees it: <<marker, path>> entries
    refs,       \* the repository's branches, active branch, tags and changed files
    call,       \* the last call made: the operation and its arguments
    result,     \* how the last call ended
    trace       \* the find_program and run_program calls of the last call, in order

vars == <<fs, cwd, installed, pytest, os_name, tree, refs, call, result, trace>>

world == <<fs, cwd, installed, pytest, os_name, tree, refs>>

(***************************************************************************)
(* Bounds of the model.                                                    *)
(***************************************************************************)
MaxDepth == 2       \* depth of the directory tree
MaxMarkers == 2     \* marker directories created
MaxEntries == 2     \* entries of the working tree's status
MaxBranches == 2    \* branches of the repository
MaxTags == 1        \* tags of the repository

Names == {"a", "b"}

(***************************************************************************)
(* Python values.                                                          *)
(***************************************************************************)
None == [t |-> "None"]
True == [t |-> "bool", v |-> TRUE]
PyList(s) == [t |-> "list", v |-> s]
PyDict(f) == [t |-> "dict", v |-> f]
PyTuple(s) == [t |-> "tuple", v |-> s]
PyStr(s) == [t |-> "str", v |-> s]
Path(a, p) == [t |-> "path", abs |-> a, parts |-> p]

Return(v) == [kind |-> "return", value |-> v]
Raise(e) == [kind |-> "raise", exc |-> e]
NoResult == [kind |-> "idle"]
NoCall == [op |-> "none"]

(***************************************************************************)
(* Text.                                                                   *)
(***************************************************************************)
IsSpace(c) == c \in {" ", "\n", "\t", "\r"}

RECURSIVE LStrip(_)
LStrip(s) == IF s # <<>> /\ IsSpace(Head(s)) THEN LStrip(Tail(s)) ELSE s

RECURSIVE RStrip(_)
RStrip(s) ==
    IF s # <<>> /\ IsSpace(s[Len(s)]) THEN RStrip(SubSeq(s, 1, Len(s) - 1)) ELSE s

\* str.strip()
Strip(s) == LStrip(RStrip(s))

\* s[:n] for n >= 0
Upto(s, n) == SubSeq(s, 1, IF n < Len(s) THEN n ELSE Len(s))

\* s[n:] for n >= 0
From(s, n) == SubSeq(s, n + 1, Len(s))

\* s[:-1]
DropLast(s) == SubSeq(s, 1, Len(s) - 1)

\* s.split(sep) for a one-character sep: always at least one piece
RECURSIVE SplitAcc(_, _, _)
SplitAcc(s, sep, cur) ==
    IF s = <<>> THEN <<cur>>
    ELSE IF Head(s) = sep THEN <<cur>> \o SplitAcc(Tail(s), sep, <<>>)
    ELSE SplitAcc(Tail(s), sep, Append(cur, Head(s)))

Split(s, sep) == SplitAcc(s, sep, <<>>)

\* s.replace(c, '')
RECURSIVE Remove(_, _)
Remove(s, c) ==
    IF s = <<>> THEN <<>>
    ELSE IF Head(s) = c THEN Remove(Tail(s), c)
    ELSE <<Head(s)>> \o Remove(Tail(s), c)

StartsWith(s, c) == s # <<>> /\ Head(s) = c

\* the first whitespace-delimited word of s, and what follows it
RECURSIVE WordEnd(_)
WordEnd(s) == IF s = <<>> \/ IsSpace(Head(s)) THEN 0 ELSE 1 + WordEnd(Tail(s))

\* s.split(None, 1): at most two pieces, the second keeps its trailing blanks
SplitWs1(s) ==
    LET body == LStrip(s)
        n == WordEnd(body)
        rest == LStrip(From(body, n))
    IN  IF body = <<>> THEN <<>>
        ELSE IF rest = <<>> THEN <<Upto(body, n)>>
        ELSE <<Upto(body, n), rest>>

SelectLines(lines) == SelectSeq(lines, LAMBDA x : x # <<>>)

MapStrip(lines) == [i \in 1..Len(lines) |-> Strip(lines[i])]

\* bytes.decode('utf-8'): "ok" and the text, or not ok (UnicodeDecodeError)
RECURSIVE Utf8(_)
Utf8(b) ==
    IF b = <<>> THEN [ok |-> TRUE, text |-> <<>>]
    ELSE IF Head(b) = "c3" THEN
        IF Len(b) >= 2 /\ b[2] = "a9"
        THEN LET r == Utf8(Tail(Tail(b)))
             IN  [ok |-> r.ok, text |-> <<"e'">> \o r.text]
        ELSE [ok |-> FALSE, text |-> <<>>]
    ELSE IF Head(b) \in {"a9", "ff"} THEN [ok |-> FALSE, text |-> <<>>]
    ELSE LET r == Utf8(Tail(b)) IN [ok |-> r.ok, text |-> <<Head(b)>> \o r.text]

(***************************************************************************)
(* Paths and the file system.                                              *)
(***************************************************************************)
\* os.path.normpath on the components of an absolute path
RECURSIVE NormAcc(_, _)
NormAcc(parts, acc) ==
    IF parts = <<>> THEN acc
    ELSE IF Head(parts) = ".."
         THEN NormAcc(Tail(parts), IF acc = <<>> THEN acc ELSE DropLast(acc))
         ELSE NormAcc(Tail(parts), Append(acc, Head(parts)))

\* os.path.abspath
abspath(p) ==
    Path(TRUE, NormAcc(IF p.abs THEN p.parts ELSE cwd \o p.parts, <<>>))

\* os.path.join(path, name)
join(p, name) == Path(p.abs, Append(p.parts, name))

\* os.path.isdir, asked of a marker directory
isdir(p) == abspath(p).parts \in fs

\* spyder.utils.misc.abspardir: the absolute path of the parent directory
abspardir(p) == abspath(join(p, ".."))

(***************************************************************************)
(* The registry.                                                           *)
(***************************************************************************)
Cmd(tool, args) == [tool |-> tool, args |-> args]

SUPPORTED ==
    << [name |-> "Mercurial", rootdir |-> ".hg",
        actions |-> [commit |-> <<Cmd("thg", <<"commit">>), Cmd("hgtk", <<"commit">>)>>,
                     browse |-> <<Cmd("thg", <<"log">>), Cmd("hgtk", <<"log">>)>>,
                     cstate |-> <<Cmd("hg", <<"status", "-A">>)>>]],
       [name |-> "Git", rootdir |-> ".git",
        actions |-> [commit |-> <<Cmd("git", <<IF os_name = "nt" THEN "gui" ELSE "cola">>)>>,
                     browse |-> <<Cmd("gitk", <<>>)>>,
                     cstate |-> <<Cmd("git", <<"status", "--ignored", "--porcelain">>)>>]] >>

Markers == {".hg", ".git"}

\* the infos of SUPPORTED from the i-th on: the first whose marker is a directory
RECURSIVE InfoFrom(_, _)
InfoFrom(path, i) ==
    IF i > Len(SUPPORTED) THEN None
    ELSE IF isdir(join(path, SUPPORTED[i].rootdir)) THEN SUPPORTED[i]
    ELSE InfoFrom(path, i + 1)

\* get_vcs_info: osp.join(None, ...) is a TypeError
get_vcs_info(path) ==
    IF path = None THEN Raise("TypeError") ELSE Return(InfoFrom(path, 1))

RECURSIVE RootLoop(_, _)
RootLoop(path, previous_path) ==
    IF get_vcs_info(path).value # None THEN abspath(path)
    ELSE LET parent == abspardir(path)
         IN  IF parent = previous_path THEN None ELSE RootLoop(parent, parent)

\* a walk that gives up above the parent directory
RootNoStop(path) ==
    IF get_vcs_info(path).value # None THEN abspath(path)
    ELSE IF get_vcs_info(abspardir(path)).value # None THEN abspardir(path)
    ELSE None

get_vcs_root(path) == RootLoop(path, path)

is_vcs_repository(path) == get_vcs_root(path) # None

(***************************************************************************)
(* The directories and the paths a call is given.                          *)
(***************************************************************************)
\* the directory a/a/.../a of depth n
Spine(n) == [i \in 1..n |-> "a"]

\* the directories of the tree: a spine of depth MaxDepth, and at each level
\* of it a sibling of the spine's directory
RECURSIVE DirsUpTo(_)
DirsUpTo(n) ==
    IF n = 0 THEN {<<>>}
    ELSE DirsUpTo(n - 1) \cup {Append(Spine(n - 1), c) : c \in Names}

Dirs == DirsUpTo(MaxDepth)

StartPaths ==
    {Path(TRUE, d) : d \in Dirs} \cup {Path(FALSE, p) : p \in {<<>>, <<"a">>, <<"..">>}}

\* the directory d and its ancestors, as component sequences
Ancestors(d) == {SubSeq(d, 1, n) : n \in 0..Len(d)}

HasMarker(d) == \E m \in Markers : Append(d, m) \in fs

(***************************************************************************)
(* The file system changes: a repository is initialised in a directory.    *)
(* What an earlier call returned says nothing of the new file system, so   *)
(* the record of the last call is cleared.                                 *)
(***************************************************************************)
Forget ==
    /\ call' = NoCall
    /\ result' = NoResult
    /\ trace' = <<>>

MkMarker(d, m) ==
    /\ Cardinality(fs) < MaxMarkers
    /\ Append(d, m) \notin fs
    /\ fs' = fs \cup {Append(d, m)}
    /\ Forget
    /\ UNCHANGED <<cwd, installed, pytest, os_name, tree, refs>>

(***************************************************************************)
(* get_vcs_root and is_vcs_repository.                                     *)
(***************************************************************************)
GetVcsRoot(path) ==
    /\ call' = [op |-> "get_vcs_root", path |-> path]
    /\ result' = Return(get_vcs_root(path))
    /\ trace' = <<>>
    /\ UNCHANGED world

IsVcsRepository(path) ==
    /\ call' = [op |-> "is_vcs_repository", path |-> path]
    /\ result' = Return([t |-> "bool", v |-> is_vcs_repository(path)])
    /\ trace' = <<>>
    /\ UNCHANGED world

InitRoot ==
    /\ fs = {}
    /\ cwd \in {<<>>, <<"a", "b">>}
    /\ installed = {}
    /\ pytest = FALSE
    /\ os_name = "posix"
    /\ tree = <<>>
    /\ refs = [branches |-> <<>>, active |-> 0, tags |-> <<>>, changed |-> <<>>]
    /\ call = NoCall
    /\ result = NoResult
    /\ trace = <<>>

NextRoot ==
    \/ \E d \in Dirs, m \in Markers : MkMarker(d, m)
    \/ \E p \in StartPaths : GetVcsRoot(p)
    \/ \E p \in StartPaths : IsVcsRepository(p)

SpecRoot == InitRoot /\ [][NextRoot]_vars

\* the marked directories among the start path's directory and its ancestors
MarkedAbove(path) == {d \in Ancestors(abspath(path).parts) : HasMarker(d)}

\* C1: get_vcs_root(P) is the absolute path of the nearest directory among P
\* and its ancestors that holds a marker, and None exactly when none does.
C1_NearestMarkedAncestor ==
    call.op = "get_vcs_root" =>
        /\ result.kind = "return"
        /\ (result.value = None) <=> (MarkedAbove(call.path) = {})
        /\ result.value # None =>
            /\ result.value.abs
            /\ result.value.parts \in MarkedAbove(call.path)
            /\ \A d \in MarkedAbove(call.path) : Len(d) <= Len(result.value.parts)

\* a start path below a marked directory that is itself unmarked, with a
\* marker in a sibling directory as well, resolved to the marked ancestor
C1_Witness ==
    /\ call.op = "get_vcs_root"
    /\ result.value # None
    /\ Len(result.value.parts) < Len(abspath(call.path).parts)
    /\ result.value.parts # <<>>
    /\ \E m \in fs : SubSeq(m, 1, Len(m) - 1) \notin Ancestors(abspath(call.path).parts)

(***************************************************************************)
(* The program locator and the process runner (spyder.utils.programs).     *)
(***************************************************************************)
\* programs.find_program(tool): a path, which is true, or None
find_program(tool) == tool \in installed

Found(tool) == [ev |-> "find_program", tool |-> tool]
Ran(tool, args, dir) == [ev |-> "run_program", tool |-> tool, args |-> args, cwd |-> dir]

Runs(tr) == SelectSeq(tr, LAMBDA e : e.ev = "run_program")
Finds(tr) == SelectSeq(tr, LAMBDA e : e.ev = "find_program")

Outcome(res, tr) == [res |-> res, tr |-> tr]

(***************************************************************************)
(* run_vcs_tool.                                                           *)
(***************************************************************************)
ActionToolNotFound(vcsname, action, tools) ==
    [kind |-> "raise", exc |-> "ActionToolNotFound",
     vcsname |-> vcsname, action |-> action, tools |-> tools]

\* the names last to first
cmdnamesReversed(tools) == [i \in 1..Len(tools) |-> tools[Len(tools) + 1 - i].tool]

\* [name for name, args in tools]
cmdnames(tools) == [i \in 1..Len(tools) |-> tools[i].tool]

\* a loop that goes on after the launch
RECURSIVE ToolLoopNoBreak(_, _, _, _, _, _)
ToolLoopNoBreak(info, action, tools, i, path, tr) ==
    IF i > Len(tools)
    THEN IF Runs(tr) # <<>>
         THEN Outcome(Return(None), tr)
         ELSE Outcome(ActionToolNotFound(info.name, action, cmdnames(tools)), tr)
    ELSE IF find_program(tools[i].tool)
    THEN IF ~pytest
         THEN ToolLoopNoBreak(info, action, tools, i + 1, path,
                  tr \o <<Found(tools[i].tool), Ran(tools[i].tool, tools[i].args, path)>>)
         ELSE Outcome(Return(True), Append(tr, Found(tools[i].tool)))
    ELSE ToolLoopNoBreak(info, action, tools, i + 1, path, Append(tr, Found(tools[i].tool)))

\* the for loop of run_vcs_tool from the i-th candidate on, and its else
RECURSIVE ToolLoop(_, _, _, _, _, _)
ToolLoop(info, action, tools, i, path, tr) ==
    IF i > Len(tools)
    THEN Outcome(ActionToolNotFound(info.name, action, cmdnames(tools)), tr)
    ELSE IF find_program(tools[i].tool)
    THEN IF ~pytest
         THEN Outcome(Return(None),
                      tr \o <<Found(tools[i].tool), Ran(tools[i].tool, tools[i].args, path)>>)
         ELSE Outcome(Return(True), Append(tr, Found(tools[i].tool)))
    ELSE ToolLoop(info, action, tools, i + 1, path, Append(tr, Found(tools[i].tool)))

run_vcs_tool(path, action) ==
    LET info == get_vcs_info(get_vcs_root(path))
    IN  IF info.kind = "raise" THEN Outcome(info, <<>>)
        ELSE ToolLoop(info.value, action, info.value.actions[action], 1, path, <<>>)

RunVcsTool(path, action) ==
    /\ call' = [op |-> "run_vcs_tool", path |-> path, action |-> action]
    /\ result' = run_vcs_tool(path, action).res
    /\ trace' = run_vcs_tool(path, action).tr
    /\ UNCHANGED world

Actions == {"commit", "browse"}

ToolDirs == {<<>>, <<"a">>}
ToolPaths == {Path(TRUE, d) : d \in {<<>>, <<"a">>, <<"a", "a">>, <<"b">>}}
                 \cup {Path(FALSE, <<>>)}

InitTool ==
    /\ fs = {}
    /\ cwd = <<"a">>
    /\ installed \in SUBSET {"thg", "hgtk", "git", "gitk"}
    /\ pytest \in BOOLEAN
    /\ os_name \in {"posix", "nt"}
    /\ tree = <<>>
    /\ refs = [branches |-> <<>>, active |-> 0, tags |-> <<>>, changed |-> <<>>]
    /\ call = NoCall
    /\ result = NoResult
    /\ trace = <<>>

NextTool ==
    \/ \E d \in ToolDirs, m \in Markers : MkMarker(d, m)
    \/ \E p \in ToolPaths, a \in Actions : RunVcsTool(p, a)

SpecTool == InitTool /\ [][NextTool]_vars

\* the nearest marked directory at or above the path, when there is one
RootDir(path) ==
    CHOOSE d \in MarkedAbove(path) : \A e \in MarkedAbove(path) : Len(e) <= Len(d)

\* the registry's entry for the repository around the path: Mercurial's when
\* the root holds '.hg', Git's otherwise
Detected(path) ==
    IF Append(RootDir(path), ".hg") \in fs THEN SUPPORTED[1] ELSE SUPPORTED[2]

Candidates(path, action) == Detected(path).actions[action]

AnyInstalled(tools) == \E k \in 1..Len(tools) : tools[k].tool \in installed

FirstInstalled(tools) ==
    CHOOSE k \in 1..Len(tools) :
        /\ tools[k].tool \in installed
        /\ \A j \in 1..(k - 1) : tools[j].tool \notin installed

C7_RootNotFound ==
    (call.op = "run_vcs_tool" /\ MarkedAbove(call.path) = {})
    => /\ result.kind = "raise"
       /\ result.exc = "RootNotFound"
       /\ trace = <<>>

\* what the launch of the first installed candidate leaves in the trace
LaunchOfFirst(path, action) ==
    LET tools == Candidates(path, action)
        k == FirstInstalled(tools)
    IN  [j \in 1..k |-> Found(tools[j].tool)]
            \o <<Ran(tools[k].tool, tools[k].args, path)>>

\* C8 as stated: with a candidate installed, the candidates are probed in
\* registry order up to the first installed one, exactly that one is launched
\* with its argument list, and the call returns.
C8_LaunchesFirstInstalled ==
    (/\ call.op = "run_vcs_tool"
     /\ MarkedAbove(call.path) # {}
     /\ AnyInstalled(Candidates(call.path, call.action)))
    => /\ result.kind = "return"
       /\ trace = LaunchOfFirst(call.path, call.action)

\* C8 amended: the same when not running under pytest; under pytest the
\* candidates are probed up to the first installed one, nothing is launched
\* and the call returns True.
C8_LaunchesFirstInstalledUnlessPytest ==
    (/\ call.op = "run_vcs_tool"
     /\ MarkedAbove(call.path) # {}
     /\ AnyInstalled(Candidates(call.path, call.action)))
    => /\ result.kind = "return"
       /\ ~pytest => trace = LaunchOfFirst(call.path, call.action)
       /\ pytest =>
            /\ result.value = True
            /\ Runs(trace) = <<>>
            /\ trace = Finds(LaunchOfFirst(call.path, call.action))

\* the second Mercurial tool launched after the first was found missing
C8_Witness ==
    /\ call.op = "run_vcs_tool"
    /\ ~pytest
    /\ result = Return(None)
    /\ Len(trace) = 3
    /\ trace[3] = Ran("hgtk", <<"log">>, call.path)

(***************************************************************************)
(* The status tools.  The working tree is a sequence of entries, a state   *)
(* and a path (bytes) each, no path twice; 'git status --ignored           *)
(* --porcelain' prints "XY path" and 'hg status -A' prints "C path" for    *)
(* each, every line ended by a newline.                                    *)
(***************************************************************************)
States == {"untracked", "ignored", "modified", "staged", "added", "removed"}

\* the status codes of the result, in the order of the stat lists
Code(st) ==
    CASE st = "untracked" -> 0
      [] st = "ignored" -> 1
      [] st \in {"modified", "staged"} -> 2
      [] st = "added" -> 3
      [] OTHER -> -1

GitMarker(st) ==
    CASE st = "untracked" -> <<"?", "?">>
      [] st = "ignored" -> <<"!", "!">>
      [] st = "modified" -> <<" ", "M">>
      [] st = "staged" -> <<"M", " ">>
      [] st = "added" -> <<"A", " ">>
      [] st = "removed" -> <<"D", " ">>

HgMarker(st) ==
    CASE st = "untracked" -> <<"?">>
      [] st = "ignored" -> <<"I">>
      [] st \in {"modified", "staged"} -> <<"M">>
      [] st = "added" -> <<"A">>
      [] st = "removed" -> <<"R">>

RECURSIVE StatusText(_, _)
StatusText(tool, entries) ==
    IF entries = <<>> THEN <<>>
    ELSE (IF tool = "git" THEN GitMarker(Head(entries).st) ELSE HgMarker(Head(entries).st))
            \o <<" ">> \o Head(entries).path \o <<"\n">>
            \o StatusText(tool, Tail(entries))

\* what the status process gives back: proc.eol is whether its output ends
\* with the newline of its last line
StatusOutput(tool, proc) ==
    LET text == StatusText(tool, tree)
    IN  [returncode |-> proc.rc,
         out |-> IF proc.eol THEN text ELSE DropLast(text),
         err |-> proc.err]

(***************************************************************************)
(* get_vcs_status.                                                         *)
(***************************************************************************)
GitOffset == 3
HgOffset == 2

GitStat == << <<"?", "?">>, <<"!", "!">>, <<"M">>, <<"A">> >>
HgStat == << <<"?">>, <<"I">>, <<"M">>, <<"A">> >>

\* stat.index(x): the index from 0, or -1 for the ValueError
StatIndex(stat, x) ==
    IF \E i \in 1..Len(stat) : stat[i] = x
    THEN (CHOOSE i \in 1..Len(stat) : stat[i] = x /\ \A j \in 1..(i - 1) : stat[j] # x) - 1
    ELSE -1

\* vcsst[k] = v
DictSet(d, k, v) == [x \in (DOMAIN d) \cup {k} |-> IF x = k THEN v ELSE d[x]]

\* the loop over the lines, from the dict built so far
RECURSIVE StatusLines(_, _, _, _)
StatusLines(lines, stat, o, vcsst) ==
    IF lines = <<>> THEN vcsst
    ELSE LET fString == Head(lines)
             index == StatIndex(stat, Strip(Upto(fString, o - 1)))
         IN  StatusLines(Tail(lines), stat, o,
                 IF index = -1 THEN vcsst ELSE DictSet(vcsst, From(fString, o), index))

\* lines 119 to 127 on the decoded output
ParseStatus(text, stat, o) ==
    StatusLines(SelectLines(Split(DropLast(text), "\n")), stat, o, <<>>)

\* lines 116 to 129: the tool is run at the root and its output read
StatusOf(info, tool, args, rootPath, proc) ==
    LET p == StatusOutput(tool, proc)
        stat == IF info.name = "Git" THEN GitStat ELSE HgStat
        o == IF info.name = "Git" THEN GitOffset ELSE HgOffset
        text == Utf8(p.out)
    IN  IF p.returncode >= 0 /\ p.err = <<>>
        THEN IF text.ok
             THEN Return(PyDict(ParseStatus(text.text, stat, o)))
             ELSE Raise("UnicodeDecodeError")
        ELSE Return(None)

\* the for loop of get_vcs_status from the i-th candidate on
RECURSIVE StatusLoop(_, _, _, _, _, _)
StatusLoop(info, tools, i, rootPath, proc, tr) ==
    IF i > Len(tools) THEN Outcome(Return(None), tr)
    ELSE IF find_program(tools[i].tool)
    THEN IF ~pytest
         THEN Outcome(StatusOf(info, tools[i].tool, tools[i].args, rootPath, proc),
                      tr \o <<Found(tools[i].tool), Ran(tools[i].tool, tools[i].args, rootPath)>>)
         ELSE Outcome(Return(True), Append(tr, Found(tools[i].tool)))
    ELSE StatusLoop(info, tools, i + 1, rootPath, proc, Append(tr, Found(tools[i].tool)))

get_vcs_status(path, proc) ==
    LET rootPath == get_vcs_root(path)
    IN  IF rootPath = None THEN Outcome(Return(PyList(<<>>)), <<>>)
        ELSE LET info == get_vcs_info(rootPath).value
             IN  StatusLoop(info, info.actions.cstate, 1, rootPath, proc, <<>>)

GetVcsStatus(path, proc) ==
    /\ call' = [op |-> "get_vcs_status", path |-> path, proc |-> proc]
    /\ result' = get_vcs_status(path, proc).res
    /\ trace' = get_vcs_status(path, proc).tr
    /\ UNCHANGED world

(***************************************************************************)
(* The working tree changes: a file comes to be in some state.             *)
(***************************************************************************)
Touch(st, path) ==
    /\ Len(tree) < MaxEntries
    /\ \A i \in 1..Len(tree) : tree[i].path # path
    /\ tree' = Append(tree, [st |-> st, path |-> path])
    /\ Forget
    /\ UNCHANGED <<fs, cwd, installed, pytest, os_name, refs>>

RepoDir == <<"a">>
StatusPaths == {Path(TRUE, <<>>), Path(TRUE, RepoDir), Path(TRUE, Append(RepoDir, "b"))}

\* how the status process may end: killed by a signal, exit 0 or exit 1, with
\* or without text on its standard error, its last line ended or cut
Procs == [rc : {-1, 0, 1}, err : {<<>>, <<"w">>}, eol : BOOLEAN]
CleanProc == [rc |-> 0, err |-> <<>>, eol |-> TRUE]

InitStatus ==
    /\ fs = {}
    /\ cwd = <<>>
    /\ installed \in SUBSET {"hg", "git"}
    /\ pytest \in BOOLEAN
    /\ os_name = "posix"
    /\ tree = <<>>
    /\ refs = [branches |-> <<>>, active |-> 0, tags |-> <<>>, changed |-> <<>>]
    /\ call = NoCall
    /\ result = NoResult
    /\ trace = <<>>

\* file names: plain, and one holding a byte that is not UTF-8
StatusNames == {<<"a">>, <<"ff">>}

NextStatus ==
    \/ \E m \in Markers : MkMarker(RepoDir, m)
    \/ \E n \in StatusNames : Touch("untracked", n)
    \/ \E p \in StatusPaths, proc \in Procs : GetVcsStatus(p, proc)

SpecStatus == InitStatus /\ [][NextStatus]_vars

\* the tool that answers for the repository around the path
StatusTool(path) == Candidates(path, "cstate")[1].tool

\* C3 as stated: with '.git' in a directory D and one untracked file there,
\* get_vcs_status on D and on an unmarked ancestor of D both give a mapping
\* holding the new file as untracked (read for git installed, the process not
\* under pytest and the status process ending cleanly).
C3_StatusFromAncestor ==
    (/\ call.op = "get_vcs_status"
     /\ fs = {Append(RepoDir, ".git")}
     /\ tree = <<[st |-> "untracked", path |-> <<"a">>]>>
     /\ call.path.parts \in Ancestors(RepoDir)
     /\ "git" \in installed /\ ~pytest /\ call.proc = CleanProc)
    => /\ result.kind = "return"
       /\ result.value # PyList(<<>>)
       /\ result.value.t = "dict"
       /\ <<"a">> \in DOMAIN result.value.v
       /\ result.value.v[<<"a">>] = 0

\* C4 as stated (read for a process not under pytest): get_vcs_status never
\* raises; it gives [] exactly without a root, None with a root when the tool
\* is missing, wrote to standard error or has a negative exit code, and a
\* mapping exactly with a root, the tool installed, a non-negative exit code
\* and an empty standard error.
C4_ThreeOutcomes ==
    (call.op = "get_vcs_status" /\ ~pytest) =>
        LET rooted == MarkedAbove(call.path) # {}
            clean == /\ StatusTool(call.path) \in installed
                     /\ call.proc.rc >= 0
                     /\ call.proc.err = <<>>
        IN  /\ result.kind = "return"
            /\ (result.value = PyList(<<>>)) <=> ~rooted
            /\ (rooted /\ ~clean) => result.value = None
            /\ (result.value.t = "dict") <=> (rooted /\ clean)

(***************************************************************************)
(* The parsing of the status output: every state of a file, names with a   *)
(* blank and a two-byte character, a clean run of the installed tool.      *)
(***************************************************************************)
ParseNames == {<<"a">>, <<"b", " ", "c3", "a9">>}
ParseProcs == {proc \in Procs : proc.rc = 0 /\ proc.err = <<>>}

InitParse ==
    /\ fs = {}
    /\ cwd = <<>>
    /\ installed = {"hg", "git"}
    /\ pytest = FALSE
    /\ os_name = "posix"
    /\ tree = <<>>
    /\ refs = [branches |-> <<>>, active |-> 0, tags |-> <<>>, changed |-> <<>>]
    /\ call = NoCall
    /\ result = NoResult
    /\ trace = <<>>

NextParse ==
    \/ \E m \in Markers : MkMarker(RepoDir, m)
    \/ \E st \in States, n \in ParseNames : Touch(st, n)
    \/ \E proc \in ParseProcs : GetVcsStatus(Path(TRUE, RepoDir), proc)

SpecParse == InitParse /\ [][NextParse]_vars

\* the entries of the working tree whose state has a status code
Coded == {i \in 1..Len(tree) : Code(tree[i].st) >= 0}

\* the mapping the working tree calls for: the name of each such entry, whole,
\* to the code of its state
TreeStatus ==
    [k \in {Utf8(tree[i].path).text : i \in Coded} |->
        Code(tree[CHOOSE i \in Coded : Utf8(tree[i].path).text = k].st)]

C9_ParsedStatusTerminated ==
    (/\ call.op = "get_vcs_status"
     /\ result.kind = "return"
     /\ result.value.t = "dict"
     /\ call.proc.eol)
    => result.value.v = TreeStatus

(***************************************************************************)
(* git as the revision and ref queries see it.  refs holds the branches    *)
(* (no name twice), the index of the checked-out one (0: none), the tags   *)
(* and the lines of 'status -s'.  A command of a call runs in one of four  *)
(* modes: "ok"; "exit", git exits with an error having printed nothing;    *)
(* "spawn", the process cannot be started (OSError); "garbled", the output *)
(* holds a byte that is not UTF-8.                                         *)
(***************************************************************************)
Modes == {"ok", "exit", "spawn", "garbled"}

Hash == <<"1", "f">>

RECURSIVE BranchText(_, _)
BranchText(names, i) ==
    IF i > Len(names) THEN <<>>
    ELSE (IF i = refs.active THEN <<"*", " ">> ELSE <<" ", " ">>)
            \o names[i] \o <<"\n">> \o BranchText(names, i + 1)

RECURSIVE LinesText(_)
LinesText(lines) ==
    IF lines = <<>> THEN <<>> ELSE Head(lines) \o <<"\n">> \o LinesText(Tail(lines))

\* what git prints for the arguments
GitText(args) ==
    CASE args = <<"rev-parse", "--short", "HEAD">> -> Hash \o <<"\n">>
      [] args \in {<<"branch">>, <<"branch", "-a">>} -> BranchText(refs.branches, 1)
      [] args = <<"tag">> -> LinesText(refs.tags)
      [] args = <<"status", "-s">> -> LinesText(refs.changed)

\* programs.run_program(git, args, cwd=...).communicate()[0], or the error
run_git(git, args, mode) ==
    IF git = "None" \/ mode = "spawn" THEN [raised |-> TRUE, out |-> <<>>]
    ELSE [raised |-> FALSE,
          out |-> CASE mode = "ok" -> GitText(args)
                    [] mode = "exit" -> <<>>
                    [] mode = "garbled" -> <<"ff", "\n">>]

\* the value of git = programs.find_program('git')
git_program == IF find_program("git") THEN "git" ELSE "None"

(***************************************************************************)
(* get_git_revision.                                                       *)
(***************************************************************************)
NoRevision == Return(PyTuple(<<None, None>>))

\* lines 175 to 187, given the commit
RevisionBranch(git, repopath, commit, mode, tr) ==
    LET args == <<"branch">>
        tr2 == Append(tr, Ran(git, args, repopath))
        p == run_git(git, args, mode)
        text == Utf8(p.out)
        active_branch == SelectSeq(Split(text.text, "\n"), LAMBDA b : StartsWith(b, "*"))
    IN  IF p.raised THEN Outcome(NoRevision, tr2)
        ELSE IF ~text.ok THEN Outcome(Raise("UnicodeDecodeError"), tr2)
        ELSE IF Len(active_branch) # 1
             THEN Outcome(Return(PyTuple(<<PyStr(commit), None>>)), tr2)
        ELSE IF Len(SplitWs1(active_branch[1])) < 2
             THEN Outcome(Raise("IndexError"), tr2)
        ELSE Outcome(Return(PyTuple(<<PyStr(commit), PyStr(SplitWs1(active_branch[1])[2])>>)),
                     tr2)

get_git_revision(repopath, modes) ==
    LET git == git_program
        tr == <<Found("git")>>
        args == <<"rev-parse", "--short", "HEAD">>
        tr1 == Append(tr, Ran(git, args, repopath))
        p == run_git(git, args, modes[1])
        commit == Utf8(Strip(p.out))
    IN  IF ~(git # "None" /\ isdir(join(repopath, ".git"))) THEN Outcome(NoRevision, tr)
        ELSE IF p.raised THEN Outcome(NoRevision, tr1)
        ELSE IF ~commit.ok THEN Outcome(Raise("UnicodeDecodeError"), tr1)
        ELSE RevisionBranch(git, repopath, commit.text, modes[2], tr1)

GetGitRevision(repopath, modes) ==
    /\ call' = [op |-> "get_git_revision", path |-> repopath, modes |-> modes]
    /\ result' = get_git_revision(repopath, modes).res
    /\ trace' = get_git_revision(repopath, modes).tr
    /\ UNCHANGED world

(***************************************************************************)
(* get_git_refs.                                                           *)
(***************************************************************************)
\* the starred line is appended as printed
RECURSIVE BranchLoopKeepStar(_, _, _)
BranchLoopKeepStar(lines, branches, branch) ==
    IF lines = <<>> THEN [branches |-> branches, branch |-> branch]
    ELSE LET line == Head(lines)
         IN  BranchLoopKeepStar(Tail(lines), Append(branches, line),
                 IF StartsWith(line, "*") THEN Strip(Remove(line, "*")) ELSE branch)

\* lines 239 to 244
RECURSIVE BranchLoop(_, _, _)
BranchLoop(lines, branches, branch) ==
    IF lines = <<>> THEN [branches |-> branches, branch |-> branch]
    ELSE LET line == IF StartsWith(Head(lines), "*")
                     THEN Strip(Remove(Head(lines), "*"))
                     ELSE Head(lines)
         IN  BranchLoop(Tail(lines), Append(branches, line),
                 IF StartsWith(Head(lines), "*") THEN line ELSE branch)

\* [line.strip() for line in out.split('\n') if line]
StrippedLines(text) == MapStrip(SelectLines(Split(text, "\n")))

\* line 249
RefsReturn(branches, tags, branch, files_modifed) ==
    Return(PyTuple(<<PyList(branches \o tags), PyStr(branch), PyList(files_modifed)>>))

\* lines 229 to 249
RefsBranches(git, repopath, tags, files_modifed, mode, tr) ==
    LET args == <<"branch", "-a">>
        tr3 == Append(tr, Ran(git, args, repopath))
        p == run_git(git, args, mode)
        text == Utf8(p.out)
        b == BranchLoop(StrippedLines(text.text), <<>>, <<>>)
    IN  IF p.raised THEN Outcome(RefsReturn(<<>>, tags, <<>>, files_modifed), tr3)
        ELSE IF ~text.ok THEN Outcome(Raise("UnicodeDecodeError"), tr3)
        ELSE Outcome(RefsReturn(b.branches, tags, b.branch, files_modifed), tr3)

\* lines 219 to 249
RefsTags(git, repopath, files_modifed, modes, tr) ==
    LET args == <<"tag">>
        tr2 == Append(tr, Ran(git, args, repopath))
        p == run_git(git, args, modes[2])
        text == Utf8(p.out)
    IN  IF p.raised THEN Outcome(RefsReturn(<<>>, <<>>, <<>>, files_modifed), tr2)
        ELSE IF ~text.ok THEN Outcome(Raise("UnicodeDecodeError"), tr2)
        ELSE RefsBranches(git, repopath, StrippedLines(text.text), files_modifed,
                          modes[3], tr2)

\* os.path.dirname
dirname(p) == Path(p.abs, DropLast(p.parts))

get_git_refs(path, isfile, modes) ==
    LET repopath == IF isfile THEN dirname(path) ELSE path
        git == git_program
        args == <<"status", "-s">>
        tr1 == <<Found("git"), Ran(git, args, repopath)>>
        p == run_git(git, args, modes[1])
        text == Utf8(p.out)
    IN  IF p.raised THEN Outcome(RefsReturn(<<>>, <<>>, <<>>, <<>>), tr1)
        ELSE IF ~text.ok THEN Outcome(Raise("UnicodeDecodeError"), tr1)
        ELSE RefsTags(git, repopath, StrippedLines(text.text), modes, tr1)

GetGitRefs(path, isfile, modes) ==
    /\ call' = [op |-> "get_git_refs", path |-> path, isfile |-> isfile, modes |-> modes]
    /\ result' = get_git_refs(path, isfile, modes).res
    /\ trace' = get_git_refs(path, isfile, modes).tr
    /\ UNCHANGED world

(***************************************************************************)
(* The repository changes: branches, a checkout, tags, changed files.      *)
(***************************************************************************)
Branch(name) ==
    /\ Len(refs.branches) < MaxBranches
    /\ \A i \in 1..Len(refs.branches) : refs.branches[i] # name
    /\ refs' = [refs EXCEPT !.branches = Append(@, name)]
    /\ Forget
    /\ UNCHANGED <<fs, cwd, installed, pytest, os_name, tree>>

Checkout(i) ==
    /\ i \in 1..Len(refs.branches)
    /\ i # refs.active
    /\ refs' = [refs EXCEPT !.active = i]
    /\ Forget
    /\ UNCHANGED <<fs, cwd, installed, pytest, os_name, tree>>

Tag(name) ==
    /\ Len(refs.tags) < MaxTags
    /\ \A i \in 1..Len(refs.tags) : refs.tags[i] # name
    /\ refs' = [refs EXCEPT !.tags = Append(@, name)]
    /\ Forget
    /\ UNCHANGED <<fs, cwd, installed, pytest, os_name, tree>>

Edit(line) ==
    /\ refs.changed = <<>>
    /\ refs' = [refs EXCEPT !.changed = <<line>>]
    /\ Forget
    /\ UNCHANGED <<fs, cwd, installed, pytest, os_name, tree>>

BranchNames == {<<"m">>, <<"o", "/", "m">>, <<"(", "H", " ", "1", ")">>}
TagNames == {<<"v", "1">>, <<"v", "2">>}
ChangedLines == {<<" ", "M", " ", "a">>}

\* the modes of the n commands of a call: all fine, one command failing, or
\* every command exiting with an error (the directory is in no repository)
ModesOf(n) ==
    {[i \in 1..n |-> "ok"], [i \in 1..n |-> "exit"]}
        \cup {[i \in 1..n |-> IF i = k THEN m ELSE "ok"] : k \in 1..n, m \in Modes}

InitGit ==
    /\ fs = {}
    /\ cwd = <<>>
    /\ installed \in {{}, {"git"}}
    /\ pytest = FALSE
    /\ os_name = "posix"
    /\ tree = <<>>
    /\ refs = [branches |-> <<>>, active |-> 0, tags |-> <<>>, changed |-> <<>>]
    /\ call = NoCall
    /\ result = NoResult
    /\ trace = <<>>

RevisionPaths == {Path(TRUE, RepoDir), Path(TRUE, Append(RepoDir, "b"))}

NextRevision ==
    \/ \E m \in Markers : MkMarker(RepoDir, m)
    \/ \E n \in BranchNames : Branch(n)
    \/ \E i \in 1..MaxBranches : Checkout(i)
    \/ \E p \in RevisionPaths, modes \in ModesOf(2) : GetGitRevision(p, modes)

SpecRevision == InitGit /\ [][NextRevision]_vars

NextRefs ==
    \/ \E n \in BranchNames : Branch(n)
    \/ \E i \in 1..MaxBranches : Checkout(i)
    \/ \E n \in TagNames : Tag(n)
    \/ \E l \in ChangedLines : Edit(l)
    \/ \E modes \in ModesOf(3) :
        \/ GetGitRefs(Path(TRUE, RepoDir), FALSE, modes)
        \/ GetGitRefs(Path(TRUE, Append(RepoDir, "f")), TRUE, modes)

SpecRefs == InitGit /\ [][NextRefs]_vars

\* C5 as stated: get_git_revision returns (None, None), raising nothing, on
\* every failure: git not installed, no '.git' directly under repopath, a git
\* process failing, or its output failing to decode.
C5_NoneOnEveryFailure ==
    (/\ call.op = "get_git_revision"
     /\ \/ "git" \notin installed
        \/ Append(call.path.parts, ".git") \notin fs
        \/ \E i \in 1..2 : call.modes[i] # "ok")
    => result = NoRevision

\* the part of C5 that holds: (None, None) when git is missing, when repopath
\* holds no '.git' itself, and when a process cannot be started
C5_NoneWithoutGitOrMarker ==
    (/\ call.op = "get_git_revision"
     /\ \/ "git" \notin installed
        \/ Append(call.path.parts, ".git") \notin fs
        \/ call.modes[1] = "spawn"
        \/ (call.modes[1] = "ok" /\ call.modes[2] = "spawn"))
    => result = NoRevision

AllOk(modes) == \A i \in 1..Len(modes) : modes[i] = "ok"

\* C6: when the three commands of get_git_refs succeed and a branch is checked
\* out, the active branch returned is its name without the '*', not empty and
\* an element of the ref list; the ref list is the branches in order and then
\* the tags in order.
C6_ActiveBranchAndRefs ==
    (call.op = "get_git_refs" /\ "git" \in installed /\ AllOk(call.modes))
    => /\ result.kind = "return"
       /\ result.value.v[1].v = refs.branches \o refs.tags
       /\ refs.active # 0 =>
            /\ result.value.v[2].v = refs.branches[refs.active]
            /\ result.value.v[2].v # <<>>
            /\ \E i \in 1..Len(result.value.v[1].v) :
                    result.value.v[1].v[i] = result.value.v[2].v

\* two branches, the second checked out, a detached head among them, and a tag
C6_Witness ==
    /\ call.op = "get_git_refs"
    /\ "git" \in installed
    /\ AllOk(call.modes)
    /\ call.isfile
    /\ refs.active = 2
    /\ Len(refs.tags) = 1
    /\ result.kind = "return"
    /\ Len(result.value.v[1].v) = 3
    /\ result.value.v[2].v = refs.branches[2]

\* the commands of get_git_refs, in their order
RefCommands == << <<"status", "-s">>, <<"tag">>, <<"branch", "-a">> >>

\* the first command of the call that fails
FirstFailure(modes) ==
    CHOOSE k \in 1..Len(modes) : modes[k] # "ok" /\ \A j \in 1..(k - 1) : modes[j] = "ok"

\* C10 as stated: when the k-th command of get_git_refs fails (it exits with
\* an error or cannot be started), the call raises nothing, has run the first
\* k commands in order and none after, and returns the results of the
\* commands before the k-th with '' and [] for the rest.
C10_FailureStopsTheCall ==
    (/\ call.op = "get_git_refs"
     /\ "git" \in installed
     /\ ~AllOk(call.modes)
     /\ \A i \in 1..3 : call.modes[i] \in {"ok", "exit", "spawn"})
    => LET k == FirstFailure(call.modes)
       IN  /\ result.kind = "return"
           /\ Len(Runs(trace)) = k
           /\ \A i \in 1..k : Runs(trace)[i].args = RefCommands[i]
           /\ result.value.v[3].v = (IF k > 1 THEN MapStrip(refs.changed) ELSE <<>>)
           /\ result.value.v[1].v = (IF k > 2 THEN refs.tags ELSE <<>>)
           /\ result.value.v[2].v = <<>>

\* the part of C10 that holds: a command that cannot be started ends the call
\* with what the commands before it gave
C10_SpawnFailureStopsTheCall ==
    (/\ call.op = "get_git_refs"
     /\ "git" \in installed
     /\ \E k \in 1..3 : call.modes = [i \in 1..3 |-> IF i = k THEN "spawn" ELSE "ok"])
    => LET k == FirstFailure(call.modes)
       IN  /\ result.kind = "return"
           /\ Len(Runs(trace)) = k
           /\ \A i \in 1..k : Runs(trace)[i].args = RefCommands[i]
           /\ result.value.v[3].v = (IF k > 1 THEN MapStrip(refs.changed) ELSE <<>>)
           /\ result.value.v[1].v = (IF k > 2 THEN refs.tags ELSE <<>>)
           /\ result.value.v[2].v = <<>>

====
